---- MODULE Spec2Model ----
(***************************************************************************)
(* A model of WapiService (W-API service manager): the request executor    *)
(* with its sliding-window rate limiter, its response cache with lazy      *)
(* expiry, and the periodic health poller.  Time is the value Date.now()   *)
(* returns, in milliseconds.                                               *)
(***************************************************************************)
EXTENDS Integers, Sequences, FiniteSets, Bags, TLC

\* ------------------------------------------------------------------ bounds
MaxSteps == 3
MaxRequests == 3
MaxBurst == 3
MaxInFlight == 2
MaxAdmits == 4
MaxHandlers == 1
MaxPhoneLen == 3
MaxParticipants == 2
MaxServers == 3

\* ------------------------------------------------------- program constants
WINDOW == 60000
DefaultCacheTTL == 60
DefaultRateLimit == 60
DefaultHealthCheckInterval == 60000

\* The clock is observed on a grid of a third of the rate window, so that
\* ages below, equal to and above WINDOW (and a cache TTL) all occur.
TimeStep == WINDOW \div 3
TimePoints == {k * TimeStep : k \in 0..MaxSteps}

\* Constructor options the model draws from.
RateLimits == {1, 2}
CacheTTLs == {TimeStep \div 1000}
Intervals == {TimeStep}
\* A poll interval beyond the horizon of the clock: no tick is observed.
IdleIntervals == {60 * DefaultHealthCheckInterval}

\* ------------------------------------------------------------ JSON payloads
\* A decoded response body: its JSON type, a value (the number, the length of
\* the string, 1 for true) and, for a status object, its connected and state
\* properties ("" when absent).
Json(type, val, connected, state) ==
    [type |-> type, val |-> val, connected |-> connected, state |-> state]

JsNull == Json("null", 0, FALSE, "")

GenericPayloads ==
    { Json("object", 0, FALSE, ""), Json("array", 0, FALSE, ""),
      Json("string", 0, FALSE, ""), Json("string", 1, FALSE, ""),
      Json("number", 0, FALSE, ""), Json("number", 1, FALSE, ""),
      Json("boolean", 0, FALSE, ""), Json("boolean", 1, FALSE, ""),
      JsNull }

\* What the vendor's status endpoint answers while the device is connected or
\* not; the state label is missing while it is not.
StatusPayloads(isConnected) ==
    { Json("object", 0, isConnected, IF isConnected THEN "connected" ELSE "") }

QrPayloads == { Json("object", 1, FALSE, "") }

\* JavaScript truthiness, as `if (cachedResponse)` evaluates it.
Truthy(p) ==
    CASE p.type = "object"  -> TRUE
      [] p.type = "array"   -> TRUE
      [] p.type = "string"  -> p.val # 0
      [] p.type = "number"  -> p.val # 0
      [] p.type = "boolean" -> p.val = 1
      [] OTHER              -> FALSE

\* ------------------------------------------------------------------- errors
\* A thrown object: the set of properties it has and their values.
NoError ==
    [fields |-> {}, code |-> 0, resetAfter |-> 0, isConnectionError |-> FALSE,
     message |-> "", details |-> JsNull]

RateLimitError(resetTime) ==
    [fields |-> {"code", "message", "resetAfter"}, code |-> 429,
     resetAfter |-> resetTime, isConnectionError |-> FALSE,
     message |-> "Rate limit exceeded", details |-> JsNull]

RemoteError(status, body) ==
    [fields |-> {"code", "message", "details", "timestamp"}, code |-> status,
     resetAfter |-> 0, isConnectionError |-> FALSE,
     message |-> "API error", details |-> body]

ConnectionError(msg) ==
    [fields |-> {"code", "message", "isConnectionError", "timestamp"}, code |-> 500,
     resetAfter |-> 0, isConnectionError |-> TRUE,
     message |-> msg, details |-> JsNull]

\* How a transport call can fail: the vendor answered with a non-2xx status
\* and a body (error.response is set), or no response was received and the
\* error has only its message.
HttpStatuses == {401, 500}
ErrorBodies == { Json("object", 0, FALSE, "") }
TransportFailures ==
    { [response |-> TRUE, status |-> s, body |-> b, message |-> "Request failed"] :
        s \in HttpStatuses, b \in ErrorBodies }
    \cup { [response |-> FALSE, status |-> 0, body |-> JsNull, message |-> "Network Error"] }

\* The catch block throwing the connection error whatever the failure.
ClassifyError_alwaysConnection(f) == ConnectionError(f.message)

\* The object the catch block of _makeRequest throws.
ClassifyError(f) ==
    IF f.response THEN RemoteError(f.status, f.body)
    ELSE ConnectionError(f.message)

\* --------------------------------------------------------------- operations
\* A public method: the endpoint, method, data and skipCache it passes to
\* _makeRequest.
Op(name, endpoint, method, data, skipCache) ==
    [name |-> name, endpoint |-> endpoint, method |-> method, data |-> data,
     skipCache |-> skipCache]

\* The data object of a call: its properties in the order the method writes
\* them, each with the argument passed.
Args(names) == [i \in 1..Len(names) |-> <<names[i], "arg">>]
Get(name, endpoint, names) == Op(name, endpoint, "get", Args(names), FALSE)
Post(name, endpoint, names) == Op(name, endpoint, "post", Args(names), FALSE)

getStatus   == Get("getStatus", "/instance/device", <<>>)
getQR       == Op("getQR", "/instance/qr-code", "get", <<>>, TRUE)
getContacts == Get("getContacts", "/contacts/get-all", <<>>)
connect     == Post("connect", "/instance/connect", <<>>)
sendText    == Post("sendText", "/message/send-text", <<"phone", "message", "options">>)

\* Every method that posts.
WriteOps ==
    { connect,
      Post("disconnect", "/instance/disconnect", <<>>),
      Post("restart", "/instance/restart", <<>>),
      Post("logout", "/instance/logout", <<>>),
      sendText,
      Post("sendImage", "/message/send-image", <<"phone", "image", "caption", "options">>),
      Post("sendDocument", "/message/send-document",
           <<"phone", "document", "filename", "caption", "options">>),
      Post("sendAudio", "/message/send-audio", <<"phone", "audio", "options">>),
      Post("sendVideo", "/message/send-video", <<"phone", "video", "caption", "options">>),
      Post("sendLocation", "/message/send-location",
           <<"phone", "latitude", "longitude", "name", "address", "options">>),
      Post("sendContact", "/message/send-contact", <<"phone", "contact", "options">>),
      Post("sendButtons", "/message/send-button", <<"phone", "message", "buttons", "options">>),
      Post("sendList", "/message/send-list", <<"phone", "message", "list", "options">>),
      Post("reply", "/message/reply", <<"messageId", "message", "options">>),
      Post("saveContact", "/contacts/save", <<"phone", "name">>),
      Post("archiveChat", "/chats/archive", <<"phone">>),
      Post("unarchiveChat", "/chats/unarchive", <<"phone">>),
      Post("clearChat", "/chats/clear", <<"phone">>),
      Post("deleteChat", "/chats/delete", <<"phone">>),
      Post("pinChat", "/chats/pin", <<"phone">>),
      Post("unpinChat", "/chats/unpin", <<"phone">>),
      Post("createGroup", "/groups/create", <<"name", "participants">>),
      Post("updateGroupParticipants", "/groups/update-participants",
           <<"groupId", "participants", "action">>),
      Post("updateGroupSettings", "/groups/update-settings", <<"groupId", "settings">>),
      Post("leaveGroup", "/groups/leave", <<"groupId">>) }

\* The calls a user makes beside the poller, the calls that exercise the
\* cache, and the reads that give the posting methods a cache to disturb.
UserOps == {getStatus, sendText}
CacheOps == {getStatus, getQR, getContacts, sendText}
WriteTestOps == WriteOps \cup {getStatus}

\* ------------------------------------------------------------- rate limiter
\* _checkRateLimit rejecting only above the limit (> for >=).
CheckRateLimit_aboveLimit(ts, t, limit) ==
    LET kept == SelectSeq(ts, LAMBDA time : t - time < WINDOW)
    IN  [timestamps |-> kept,
         rejected   |-> Len(kept) > limit,
         error      |-> IF Len(kept) > limit
                        THEN RateLimitError(kept[1] + WINDOW - t)
                        ELSE NoError]

\* _checkRateLimit keeping a timestamp of age exactly WINDOW (<= for <).
CheckRateLimit_keepsBoundary(ts, t, limit) ==
    LET kept == SelectSeq(ts, LAMBDA time : t - time <= WINDOW)
    IN  [timestamps |-> kept,
         rejected   |-> Len(kept) >= limit,
         error      |-> IF Len(kept) >= limit
                        THEN RateLimitError(kept[1] + WINDOW - t)
                        ELSE NoError]

\* _checkRateLimit: prune, then reject when the window is full.
CheckRateLimit(ts, t, limit) ==
    LET kept == SelectSeq(ts, LAMBDA time : t - time < WINDOW)
    IN  [timestamps |-> kept,
         rejected   |-> Len(kept) >= limit,
         error      |-> IF Len(kept) >= limit
                        THEN RateLimitError(kept[1] + WINDOW - t)
                        ELSE NoError]

\* _trackRequest: push the timestamp, shift when longer than the limit.
TrackRequest(ts, t, limit) ==
    LET pushed == Append(ts, t)
    IN  IF Len(pushed) > limit THEN Tail(pushed) ELSE pushed

\* -------------------------------------------------------------------- cache
\* The cache is a Map: a function whose domain is the set of keys present.
EmptyCache == [k \in {} |-> 0]

MapSet(c, key, entry) == [k \in DOMAIN c \cup {key} |-> IF k = key THEN entry ELSE c[k]]
MapDelete(c, key) == [k \in DOMAIN c \ {key} |-> c[k]]

NoKey == <<>>

\* A cache key for every method, GET or not.
CacheKeyOf_anyMethod(enabled, endpoint, method, data) ==
    IF enabled THEN <<endpoint, "-", data>> ELSE NoKey

\* `${endpoint}-${JSON.stringify(data)}` for a GET with the cache enabled,
\* null otherwise.  JSON.stringify writes the properties in insertion order.
CacheKeyOf(enabled, endpoint, method, data) ==
    IF enabled /\ method = "get" THEN <<endpoint, "-", data>> ELSE NoKey

\* _saveToCache
SaveToCache(c, key, data, t, enabled, ttl) ==
    IF ~enabled THEN c
    ELSE MapSet(c, key, [data |-> data, timestamp |-> t, expires |-> t + ttl * 1000])

\* _getFromCache leaving an expired entry in the map.
GetFromCache_keepsExpired(c, key, t, enabled) ==
    IF ~enabled THEN [data |-> JsNull, cache |-> c, evicted |-> FALSE]
    ELSE IF key \notin DOMAIN c THEN [data |-> JsNull, cache |-> c, evicted |-> FALSE]
    ELSE IF t > c[key].expires THEN [data |-> JsNull, cache |-> c, evicted |-> FALSE]
    ELSE [data |-> c[key].data, cache |-> c, evicted |-> FALSE]

\* _getFromCache: the value returned (null on a miss), the map afterwards and
\* whether an expired entry was deleted.
GetFromCache(c, key, t, enabled) ==
    IF ~enabled THEN [data |-> JsNull, cache |-> c, evicted |-> FALSE]
    ELSE IF key \notin DOMAIN c THEN [data |-> JsNull, cache |-> c, evicted |-> FALSE]
    ELSE IF t > c[key].expires
         THEN [data |-> JsNull, cache |-> MapDelete(c, key), evicted |-> TRUE]
    ELSE [data |-> c[key].data, cache |-> c, evicted |-> FALSE]

\* -------------------------------------------------------------------- state
VARIABLES
    instanceId, apiToken,                                    \* credentials
    rateLimit, cacheEnabled, cacheTTL, healthCheckInterval,  \* options
    cache, requestCount, requestTimestamps,                  \* internal state
    connectionStatus, connected, connectionError,
    timerActive, nextTick,                                   \* the setInterval timer
    now, inflight, vendorConnected,                          \* clock, transport, vendor
    errorListener, unhandled,                                \* the EventEmitter, the process
    handlers, reply, proxy,                                  \* the local proxy server
    transmitted,                                             \* the W-API client's request
    last, burst, prevReported, admitLog                      \* observation

options == <<instanceId, apiToken, rateLimit, cacheEnabled, cacheTTL, healthCheckInterval>>
connection == <<connectionStatus, connected, connectionError>>
timer == <<timerActive, nextTick>>
emitter == <<errorListener, unhandled>>
peers == <<handlers, reply, transmitted, proxy>>
vars == <<instanceId, apiToken, rateLimit, cacheEnabled, cacheTTL, healthCheckInterval,
          cache, requestCount, requestTimestamps,
          connectionStatus, connected, connectionError,
          timerActive, nextTick, now, inflight, vendorConnected,
          errorListener, unhandled, handlers, reply, transmitted, proxy,
          last, burst, prevReported, admitLog>>

\* What the step just taken did: the handler, who called, the operation, its
\* cache key, how _makeRequest ended, what the caller got, whether the cache
\* was looked up, lost an expired entry or was written, whether a transport
\* call was started, and the events emitted.
Last(act, origin, op, key, outcome, value, error, lookedUp, evicted, stored, transport, events) ==
    [act |-> act, origin |-> origin, op |-> op, key |-> key, outcome |-> outcome,
     value |-> value, error |-> error, lookedUp |-> lookedUp, evicted |-> evicted,
     stored |-> stored, transport |-> transport, events |-> events]

Quiet(act) ==
    Last(act, "none", "none", NoKey, "none", JsNull, NoError, FALSE, FALSE, FALSE,
         FALSE, <<>>)

\* A reply of the proxy server: what the request was, the route that took it
\* ("" when none did), the vendor URL its handler requested, the status and
\* body sent, how many responses the step sent, and whether an error left the
\* handler.  A body is the vendor's JSON as it came, or {success, error}.
Body(wrapped, value) == [value |-> value, wrapped |-> wrapped]
NoBody == Body(FALSE, JsNull)
Reply(origin, name, method, path, route, url, status, body, responses, thrown) ==
    [status |-> status, body |-> body, name |-> name, method |-> method, origin |-> origin,
     path |-> path, route |-> route, url |-> url, responses |-> responses,
     thrown |-> thrown]
NoReply == Reply("none", "", "", "", "", "", 0, NoBody, 0, FALSE)

\* The request a W-API client passed to its HTTP instance: none yet.
NoTransmission ==
    [endpoint |-> "", method |-> "", op |-> "none", thrown |-> FALSE, given |-> <<>>,
     phones |-> <<>>]

\* The proxy module: the server its variable `server` holds (0 for null),
\* the servers created through it that are listening, those whose close()
\* has not called back yet, how many it created, and how the last start()
\* and the last stop() ended ("" while the step was another).  A server is
\* its number and its port.
Proxy(server, listening, closing, created, started, stopped) ==
    [server |-> server, listening |-> listening, closing |-> closing,
     created |-> created, started |-> started, stopped |-> stopped]
NoProxy == Proxy(0, {}, {}, 0, "", "")

\* No proxy server was started or has a request and no W-API client has
\* sent one.
PeersIdle ==
    /\ handlers = EmptyBag
    /\ reply = NoReply
    /\ transmitted = NoTransmission
    /\ proxy = NoProxy

\* The value the constructor takes for a credential: options.x || process.env.X
\* ("" stands for a missing one).
Credential(fromOptions, fromEnv) == IF fromOptions # "" THEN fromOptions ELSE fromEnv

\* The Error the constructor throws.
ConfigError ==
    [fields |-> {"message"}, code |-> 0, resetAfter |-> 0, isConnectionError |-> FALSE,
     message |-> "W-API configuration requires instanceId and apiToken", details |-> JsNull]

\* The constructor run to its end with credentials id and token: the options
\* and the internal state are set and the health-check timer is started.
Configured(id, token, intervals) ==
    /\ instanceId = id
    /\ apiToken = token
    /\ rateLimit \in RateLimits
    /\ cacheEnabled \in BOOLEAN
    /\ cacheTTL \in CacheTTLs
    /\ healthCheckInterval \in intervals
    /\ cache = EmptyCache
    /\ connectionStatus = "disconnected"
    /\ connected = FALSE
    /\ connectionError = NoError
    /\ timerActive = TRUE
    /\ nextTick = healthCheckInterval
    /\ now = 0
    /\ vendorConnected = FALSE
    /\ errorListener = FALSE
    /\ unhandled = FALSE
    /\ prevReported = FALSE
    /\ admitLog = <<>>
    /\ PeersIdle

\* The state after `new WapiService(options)` returned, at time 0.
ConstructWith(id, token, intervals) ==
    /\ Configured(id, token, intervals)
    /\ requestCount = 0
    /\ requestTimestamps = <<>>
    /\ inflight = EmptyBag
    /\ last = Quiet("constructor")
    /\ burst = 0

\* constructor, given both credentials.
Construct(intervals) == ConstructWith("instance", "token", intervals)

Init == Construct(Intervals)
InitIdle == Construct(IdleIntervals)

\* The service object exists: its constructor did not throw.
Constructed == instanceId # "" /\ apiToken # ""

\* --------------------------------------------------------- request executor
\* _makeRequest tracking the request before it checks the rate limit.
BeginRequest_trackFirst(ts, c, count, t, limit, enabled, op) ==
    LET chk     == CheckRateLimit(ts, t, limit)
        key     == CacheKeyOf(enabled, op.endpoint, op.method, op.data)
        consult == key # NoKey /\ ~op.skipCache
        got     == IF consult THEN GetFromCache(c, key, t, enabled)
                   ELSE [data |-> JsNull, cache |-> c, evicted |-> FALSE]
    IN  IF chk.rejected
        THEN [outcome |-> "rejected", timestamps |-> TrackRequest(chk.timestamps, t, limit),
              cache |-> c, requestCount |-> count + 1, error |-> chk.error,
              value |-> JsNull, cacheKey |-> key, lookedUp |-> FALSE, evicted |-> FALSE]
        ELSE IF consult /\ Truthy(got.data)
        THEN [outcome |-> "hit", timestamps |-> chk.timestamps, cache |-> got.cache,
              requestCount |-> count, error |-> NoError, value |-> got.data,
              cacheKey |-> key, lookedUp |-> TRUE, evicted |-> FALSE]
        ELSE [outcome |-> "sent", timestamps |-> TrackRequest(chk.timestamps, t, limit),
              cache |-> got.cache, requestCount |-> count + 1, error |-> NoError,
              value |-> JsNull, cacheKey |-> key, lookedUp |-> consult,
              evicted |-> got.evicted]

\* _makeRequest looking into the cache before it checks the rate limit.
BeginRequest_cacheFirst(ts, c, count, t, limit, enabled, op) ==
    LET chk     == CheckRateLimit(ts, t, limit)
        key     == CacheKeyOf(enabled, op.endpoint, op.method, op.data)
        consult == key # NoKey /\ ~op.skipCache
        got     == IF consult THEN GetFromCache(c, key, t, enabled)
                   ELSE [data |-> JsNull, cache |-> c, evicted |-> FALSE]
    IN  IF consult /\ Truthy(got.data)
        THEN [outcome |-> "hit", timestamps |-> ts, cache |-> got.cache,
              requestCount |-> count, error |-> NoError, value |-> got.data,
              cacheKey |-> key, lookedUp |-> TRUE, evicted |-> FALSE]
        ELSE IF chk.rejected
        THEN [outcome |-> "rejected", timestamps |-> chk.timestamps, cache |-> got.cache,
              requestCount |-> count, error |-> chk.error, value |-> JsNull,
              cacheKey |-> key, lookedUp |-> consult, evicted |-> got.evicted]
        ELSE [outcome |-> "sent", timestamps |-> TrackRequest(chk.timestamps, t, limit),
              cache |-> got.cache, requestCount |-> count + 1, error |-> NoError,
              value |-> JsNull, cacheKey |-> key, lookedUp |-> consult,
              evicted |-> got.evicted]

\* _makeRequest up to its first await: rate check, cache key, cache lookup,
\* tracking.  outcome is "rejected" (429 thrown), "hit" (cached response
\* returned) or "sent" (the transport call is started).
BeginRequest(ts, c, count, t, limit, enabled, op) ==
    LET chk     == CheckRateLimit(ts, t, limit)
        key     == CacheKeyOf(enabled, op.endpoint, op.method, op.data)
        consult == key # NoKey /\ ~op.skipCache
        got     == IF consult THEN GetFromCache(c, key, t, enabled)
                   ELSE [data |-> JsNull, cache |-> c, evicted |-> FALSE]
    IN  IF chk.rejected
        THEN [outcome |-> "rejected", timestamps |-> chk.timestamps, cache |-> c,
              requestCount |-> count, error |-> chk.error, value |-> JsNull,
              cacheKey |-> key, lookedUp |-> FALSE, evicted |-> FALSE]
        ELSE IF consult /\ Truthy(got.data)
        THEN [outcome |-> "hit", timestamps |-> chk.timestamps, cache |-> got.cache,
              requestCount |-> count, error |-> NoError, value |-> got.data,
              cacheKey |-> key, lookedUp |-> TRUE, evicted |-> FALSE]
        ELSE [outcome |-> "sent", timestamps |-> TrackRequest(chk.timestamps, t, limit),
              cache |-> got.cache, requestCount |-> count + 1, error |-> NoError,
              value |-> JsNull, cacheKey |-> key, lookedUp |-> consult,
              evicted |-> got.evicted]

\* _makeRequest after a successful transport call: cache the response of a
\* request that has a cache key.
FinishRequest(c, key, data, t, enabled, ttl) ==
    IF key # NoKey THEN SaveToCache(c, key, data, t, enabled, ttl) ELSE c

Pending(origin, op, key) ==
    [origin |-> origin, op |-> op.name, endpoint |-> op.endpoint,
     method |-> op.method, cacheKey |-> key]

\* The transport calls awaiting their response form a bag of requests.
InFlight == BagCardinality(inflight)
Sent(r) == inflight (+) SetToBag({r})
Settled(r) == inflight (-) SetToBag({r})

\* burst counts the calls of a run of getStatus() calls made right after
\* construction with nothing else happening; Broken once anything else did.
Broken == 0 - 1

\* The bodies the vendor can answer a request with.
Responses(endpoint) ==
    CASE endpoint = "/instance/device"  -> StatusPayloads(vendorConnected)
      [] endpoint = "/instance/qr-code" -> QrPayloads
      [] endpoint = "/contacts/get-all" -> GenericPayloads
      [] OTHER                          -> { Json("object", 1, FALSE, "") }

\* ------------------------------------------------------------ health poller
\* The timer callback emitting by the status alone, whatever the flag was.
PollSuccess_everyTick(status, wasConnected, oldError) ==
    [connected        |-> status.connected,
     connectionStatus |-> IF status.state # "" THEN status.state ELSE "unknown",
     connectionError  |-> oldError,
     events           |-> (IF status.connected THEN <<"connected">> ELSE <<"disconnected">>)
                          \o <<"health_check">>]

\* The timer callback after getStatus() resolved with status.
PollSuccess(status, wasConnected, oldError) ==
    [connected        |-> status.connected,
     connectionStatus |-> IF status.state # "" THEN status.state ELSE "unknown",
     connectionError  |-> oldError,
     events           |-> (IF ~wasConnected /\ status.connected THEN <<"connected">>
                           ELSE IF wasConnected /\ ~status.connected THEN <<"disconnected">>
                           ELSE <<>>) \o <<"health_check">>]

\* The catch block taking a failed poll for a disconnection.
PollFailure_disconnects(error, wasConnected, oldStatus) ==
    [connected        |-> FALSE,
     connectionStatus |-> "disconnected",
     connectionError  |-> error,
     events           |-> IF wasConnected THEN <<"disconnected", "error">> ELSE <<"error">>]

\* The timer callback's catch block.
PollFailure(error, wasConnected, oldStatus) ==
    [connected        |-> wasConnected,
     connectionStatus |-> oldStatus,
     connectionError  |-> error,
     events           |-> <<"error">>]

\* The timer callback while getStatus() is still awaiting its response.
PollPending(wasConnected, oldStatus, oldError) ==
    [connected        |-> wasConnected,
     connectionStatus |-> oldStatus,
     connectionError  |-> oldError,
     events           |-> <<>>]

\* EventEmitter.emit: emitting 'error' while no listener is registered for it
\* throws.  Thrown in the catch block of the async timer callback, it rejects
\* the promise the callback returned, which nothing handles.
EmitThrows(events, listening) ==
    ~listening /\ \E i \in 1..Len(events) : events[i] = "error"

\* ------------------------------------------------------------------ actions
\* A user calls a public method; the call runs to _makeRequest's first await.
Call(op) ==
    LET b == BeginRequest(requestTimestamps, cache, requestCount, now,
                          rateLimit, cacheEnabled, op)
    IN  /\ Constructed
        /\ b.outcome = "sent" => InFlight < MaxInFlight /\ requestCount < MaxRequests
        /\ requestTimestamps' = b.timestamps
        /\ cache' = b.cache
        /\ requestCount' = b.requestCount
        /\ inflight' = IF b.outcome = "sent"
                       THEN Sent(Pending("user", op, b.cacheKey))
                       ELSE inflight
        /\ last' = Last("call", "user", op.name, b.cacheKey, b.outcome, b.value, b.error,
                        b.lookedUp, b.evicted, FALSE, b.outcome = "sent", <<>>)
        /\ burst' = IF burst # Broken /\ burst < MaxBurst /\ op = getStatus
                    THEN burst + 1 ELSE Broken
        /\ UNCHANGED <<options, peers, emitter, connection, timer, now, vendorConnected,
                       prevReported, admitLog>>

UserCall == \E op \in UserOps : Call(op)

\* The timer fires: the callback calls getStatus() and runs on when the
\* status comes from the cache or the call is rejected.
HealthTick ==
    LET b == BeginRequest(requestTimestamps, cache, requestCount, now,
                          rateLimit, cacheEnabled, getStatus)
        p == CASE b.outcome = "hit" -> PollSuccess(b.value, connected, connectionError)
               [] b.outcome = "rejected" -> PollFailure(b.error, connected, connectionStatus)
               [] OTHER -> PollPending(connected, connectionStatus, connectionError)
    IN  /\ timerActive
        /\ now = nextTick
        /\ b.outcome = "sent" => InFlight < MaxInFlight
        /\ nextTick' = nextTick + healthCheckInterval
        /\ requestTimestamps' = b.timestamps
        /\ cache' = b.cache
        /\ requestCount' = b.requestCount
        /\ inflight' = IF b.outcome = "sent"
                       THEN Sent(Pending("poll", getStatus, b.cacheKey))
                       ELSE inflight
        /\ connected' = p.connected
        /\ connectionStatus' = p.connectionStatus
        /\ connectionError' = p.connectionError
        /\ prevReported' = IF b.outcome = "hit" THEN vendorConnected ELSE prevReported
        /\ last' = Last("tick", "poll", "getStatus", b.cacheKey, b.outcome, b.value,
                        b.error, b.lookedUp, b.evicted, FALSE, b.outcome = "sent",
                        p.events)
        /\ burst' = Broken
        /\ unhandled' = (unhandled \/ EmitThrows(p.events, errorListener))
        /\ UNCHANGED <<options, peers, errorListener, timerActive, now, vendorConnected,
                       admitLog>>

\* A transport call returns a 2xx response.
RequestSucceeds ==
    \E r \in BagToSet(inflight) : \E data \in Responses(r.endpoint) :
        LET ok == PollSuccess(data, connected, connectionError)
        IN  /\ inflight' = Settled(r)
            /\ cache' = FinishRequest(cache, r.cacheKey, data, now, cacheEnabled, cacheTTL)
            /\ connected' = IF r.origin = "poll" THEN ok.connected ELSE connected
            /\ connectionStatus' = IF r.origin = "poll" THEN ok.connectionStatus
                                   ELSE connectionStatus
            /\ prevReported' = IF r.origin = "poll" THEN vendorConnected ELSE prevReported
            /\ last' = Last("response", r.origin, r.op, r.cacheKey, "resolved", data, NoError,
                            FALSE, FALSE, r.cacheKey # NoKey /\ cacheEnabled, FALSE,
                            IF r.origin = "poll" THEN ok.events ELSE <<>>)
            /\ burst' = IF r.origin = "user" THEN burst ELSE Broken
            /\ UNCHANGED <<options, peers, emitter, requestCount, requestTimestamps, connectionError,
                           timer, now, vendorConnected, admitLog>>

\* A catch block that gives the failed request back to the limiter and drops
\* what the cache holds under its key.
Fail_undoes(r, f) ==
    LET err == ClassifyError(f)
        ko  == PollFailure(err, connected, connectionStatus)
    IN  /\ inflight' = Settled(r)
        /\ cache' = MapDelete(cache, r.cacheKey)
        /\ requestCount' = requestCount - 1
        /\ requestTimestamps' = SubSeq(requestTimestamps, 1, Len(requestTimestamps) - 1)
        /\ connected' = IF r.origin = "poll" THEN ko.connected ELSE connected
        /\ connectionStatus' = IF r.origin = "poll" THEN ko.connectionStatus
                               ELSE connectionStatus
        /\ connectionError' = IF r.origin = "poll" THEN ko.connectionError
                              ELSE connectionError
        /\ last' = Last("failure", r.origin, r.op, r.cacheKey, "failed", JsNull, err,
                        FALSE, FALSE, FALSE, FALSE,
                        <<"request_error">> \o (IF r.origin = "poll" THEN ko.events ELSE <<>>))
        /\ unhandled' = (unhandled \/ (r.origin = "poll" /\ EmitThrows(ko.events, errorListener)))
        /\ burst' = Broken
        /\ UNCHANGED <<options, peers, errorListener, timer, now, vendorConnected, prevReported,
                       admitLog>>

\* The transport call of request r fails with f: the catch block of
\* _makeRequest, then that of the timer callback when the poller made the call.
Fail(r, f) ==
    LET err == ClassifyError(f)
        ko  == PollFailure(err, connected, connectionStatus)
    IN  /\ inflight' = Settled(r)
        /\ connected' = IF r.origin = "poll" THEN ko.connected ELSE connected
        /\ connectionStatus' = IF r.origin = "poll" THEN ko.connectionStatus
                               ELSE connectionStatus
        /\ connectionError' = IF r.origin = "poll" THEN ko.connectionError
                              ELSE connectionError
        /\ last' = Last("failure", r.origin, r.op, r.cacheKey, "failed", JsNull, err,
                        FALSE, FALSE, FALSE, FALSE,
                        <<"request_error">> \o (IF r.origin = "poll" THEN ko.events ELSE <<>>))
        /\ unhandled' = (unhandled \/ (r.origin = "poll" /\ EmitThrows(ko.events, errorListener)))
        /\ burst' = Broken
        /\ UNCHANGED <<options, peers, errorListener, cache, requestCount, requestTimestamps,
                       timer, now, vendorConnected, prevReported, admitLog>>

\* A transport call fails: non-2xx response, or no response.
RequestFails ==
    \E r \in BagToSet(inflight) : \E f \in TransportFailures : Fail(r, f)

\* clearCache()
ClearCache ==
    /\ Constructed
    /\ cache' = EmptyCache
    /\ last' = Quiet("clearCache")
    /\ burst' = Broken
    /\ UNCHANGED <<options, peers, emitter, requestCount, requestTimestamps, connection, timer,
                   now, inflight, vendorConnected, prevReported, admitLog>>

\* shutdown() that also drops the requests awaiting their response.
Shutdown_cancelsRequests ==
    /\ Constructed
    /\ timerActive' = FALSE
    /\ cache' = EmptyCache
    /\ inflight' = EmptyBag
    /\ last' = Last("shutdown", "user", "shutdown", NoKey, "none", JsNull, NoError,
                    FALSE, FALSE, FALSE, FALSE, <<"shutdown">>)
    /\ burst' = Broken
    /\ UNCHANGED <<options, peers, emitter, requestCount, requestTimestamps, connection, nextTick,
                   now, vendorConnected, prevReported, admitLog>>

\* shutdown()
Shutdown ==
    /\ Constructed
    /\ timerActive' = FALSE
    /\ cache' = EmptyCache
    /\ last' = Last("shutdown", "user", "shutdown", NoKey, "none", JsNull, NoError,
                    FALSE, FALSE, FALSE, FALSE, <<"shutdown">>)
    /\ burst' = Broken
    /\ UNCHANGED <<options, peers, emitter, requestCount, requestTimestamps, connection, nextTick,
                   now, inflight, vendorConnected, prevReported, admitLog>>

\* Date.now() moves on; a due timer callback runs before the clock passes it.
AdvanceClock ==
    \E t \in TimePoints :
        /\ t > now
        /\ timerActive => t <= nextTick
        /\ now' = t
        /\ last' = Quiet("clock")
        /\ burst' = Broken
        /\ UNCHANGED <<options, peers, emitter, cache, requestCount, requestTimestamps, connection,
                       timer, inflight, vendorConnected, prevReported, admitLog>>

\* The device connects to or disconnects from WhatsApp on the vendor's side.
VendorChange ==
    /\ vendorConnected' = ~vendorConnected
    /\ last' = Quiet("vendor")
    /\ UNCHANGED <<options, peers, emitter, cache, requestCount, requestTimestamps, connection,
                   timer, now, inflight, burst, prevReported, admitLog>>

\* The owner registers a listener for 'error': service.on('error', fn).
OnError ==
    /\ Constructed
    /\ errorListener' = TRUE
    /\ last' = Quiet("on")
    /\ burst' = Broken
    /\ UNCHANGED <<options, peers, unhandled, cache, requestCount, requestTimestamps, connection,
                   timer, now, inflight, vendorConnected, prevReported, admitLog>>

Next ==
    \/ UserCall
    \/ HealthTick
    \/ RequestSucceeds
    \/ RequestFails
    \/ ClearCache
    \/ Shutdown
    \/ AdvanceClock
    \/ VendorChange
    \/ OnError

Spec == Init /\ [][Next]_vars

\* The rate limiter alone: admit() is _checkRateLimit followed, when it did
\* not throw, by _trackRequest.
Admit ==
    LET chk == CheckRateLimit(requestTimestamps, now, rateLimit)
    IN  /\ Constructed
        /\ Len(admitLog) < MaxAdmits
        /\ requestTimestamps' = IF chk.rejected THEN chk.timestamps
                                ELSE TrackRequest(chk.timestamps, now, rateLimit)
        /\ requestCount' = IF chk.rejected THEN requestCount ELSE requestCount + 1
        /\ admitLog' = Append(admitLog, [time |-> now, allowed |-> ~chk.rejected,
                                         resetAfter |-> chk.error.resetAfter])
        /\ last' = Last("admit", "user", "admit", NoKey,
                        IF chk.rejected THEN "rejected" ELSE "allowed", JsNull,
                        chk.error, FALSE, FALSE, FALSE, FALSE, <<>>)
        /\ burst' = Broken
        /\ UNCHANGED <<options, peers, emitter, cache, connection, timer, now, inflight,
                       vendorConnected, prevReported>>

NextAdmit ==
    \/ Admit
    \/ AdvanceClock

SpecAdmit == InitIdle /\ [][NextAdmit]_vars

\* Construction with and without credentials.  "" is a missing credential.
FromOptions == {"", "from-options"}
FromEnv == {"", "from-env"}

\* A constructor that starts the health-check timer before it checks the
\* credentials.
NotConstructed_timerFirst(id, token, how) ==
    /\ instanceId = id
    /\ apiToken = token
    /\ rateLimit \in RateLimits
    /\ cacheEnabled = FALSE
    /\ cacheTTL = 0
    /\ healthCheckInterval \in Intervals
    /\ cache = EmptyCache
    /\ requestCount = 0
    /\ requestTimestamps = <<>>
    /\ connectionStatus = ""
    /\ connected = FALSE
    /\ connectionError = NoError
    /\ timerActive = TRUE
    /\ nextTick = healthCheckInterval
    /\ now = 0
    /\ inflight = EmptyBag
    /\ vendorConnected = FALSE
    /\ errorListener = FALSE
    /\ unhandled = FALSE
    /\ last = Last(how, "user", how, NoKey, "threw", JsNull, ConfigError,
                   FALSE, FALSE, FALSE, FALSE, <<>>)
    /\ burst = Broken
    /\ prevReported = FALSE
    /\ admitLog = <<>>
    /\ PeersIdle

\* No WapiService object: no option and no internal state is set, no timer
\* runs.  id and token are what a constructor call, if any, was given.
Unset(id, token, was) ==
    /\ instanceId = id
    /\ apiToken = token
    /\ rateLimit = 0
    /\ cacheEnabled = FALSE
    /\ cacheTTL = 0
    /\ healthCheckInterval = 0
    /\ cache = EmptyCache
    /\ requestCount = 0
    /\ requestTimestamps = <<>>
    /\ connectionStatus = ""
    /\ connected = FALSE
    /\ connectionError = NoError
    /\ timerActive = FALSE
    /\ nextTick = 0
    /\ now = 0
    /\ inflight = EmptyBag
    /\ vendorConnected = FALSE
    /\ errorListener = FALSE
    /\ unhandled = FALSE
    /\ last = was
    /\ burst = Broken
    /\ prevReported = FALSE
    /\ admitLog = <<>>

\* The constructor threw at its credential check (how = "new"), or start()
\* rejected with what createService threw (how = "start"): nothing has been
\* set or started, and no object is returned.
NotConstructed(id, token, how) ==
    /\ Unset(id, token, Last(how, "user", how, NoKey, "threw", JsNull, ConfigError,
                             FALSE, FALSE, FALSE, FALSE, <<>>))
    /\ PeersIdle

\* start(options) with both credentials: createService, then getStatus() run
\* to its first await.
Started(id, token, intervals) ==
    /\ Configured(id, token, intervals)
    /\ LET b == BeginRequest(<<>>, EmptyCache, 0, 0, rateLimit, cacheEnabled, getStatus)
       IN  /\ requestCount = b.requestCount
           /\ requestTimestamps = b.timestamps
           /\ inflight = SetToBag({Pending("user", getStatus, b.cacheKey)})
           /\ last = Last("start", "user", "getStatus", b.cacheKey, b.outcome, b.value,
                          b.error, b.lookedUp, b.evicted, FALSE, TRUE, <<>>)
    /\ burst = 1

\* `new WapiService(options)` (how = "new") or start(options) (how = "start")
\* with the credentials the options and the environment give.
NewService(how, id, token) ==
    IF id = "" \/ token = "" THEN NotConstructed(id, token, how)
    ELSE IF how = "start" THEN Started(id, token, Intervals)
    ELSE ConstructWith(id, token, Intervals)

InitConstruct ==
    \E how \in {"new", "start"} :
    \E optionsId \in FromOptions, envId \in FromEnv :
    \E optionsToken \in FromOptions, envToken \in FromEnv :
        NewService(how, Credential(optionsId, envId), Credential(optionsToken, envToken))

StatusCall == Call(getStatus)

NextConstruct ==
    \/ StatusCall
    \/ HealthTick
    \/ RequestSucceeds
    \/ RequestFails
    \/ Shutdown
    \/ AdvanceClock

SpecConstruct == InitConstruct /\ [][NextConstruct]_vars

\* The poller beside a user who reads the status, on a vendor whose device
\* connects and disconnects.
NextPoller ==
    \/ StatusCall
    \/ HealthTick
    \/ RequestSucceeds
    \/ RequestFails
    \/ AdvanceClock
    \/ VendorChange

SpecPoller == Init /\ [][NextPoller]_vars

\* The executor and its cache with the poller idle.
CacheCall == \E op \in CacheOps : Call(op)

NextCache ==
    \/ CacheCall
    \/ RequestSucceeds
    \/ RequestFails
    \/ ClearCache
    \/ Shutdown
    \/ AdvanceClock

SpecCache == InitIdle /\ [][NextCache]_vars

\* Every posting method beside a cached read.
WriteCall == \E op \in WriteTestOps : Call(op)

NextWrite ==
    \/ WriteCall
    \/ RequestSucceeds
    \/ RequestFails

SpecWrite == InitIdle /\ [][NextWrite]_vars

\* Reads given to the executor with a parameter mapping of two keys: the
\* same mapping with its keys supplied in either order, one with another
\* value, and the first again for another endpoint.
KeyedReads ==
    { Op("get(phone, name)", "/contacts/get", "get",
         <<<<"phone", "1">>, <<"name", "x">>>>, FALSE),
      Op("get(name, phone)", "/contacts/get", "get",
         <<<<"name", "x">>, <<"phone", "1">>>>, FALSE),
      Op("get(phone', name)", "/contacts/get", "get",
         <<<<"phone", "2">>, <<"name", "x">>>>, FALSE),
      Op("chat(phone, name)", "/chats/get", "get",
         <<<<"phone", "1">>, <<"name", "x">>>>, FALSE) }

KeyedCall == \E op \in KeyedReads : Call(op)

NextKey ==
    \/ KeyedCall
    \/ RequestSucceeds
    \/ RequestFails
    \/ AdvanceClock

SpecKey == InitIdle /\ [][NextKey]_vars

\* The user-facing operations beside the poller: a method of each family
\* (instance, message, contact, chat, group; all run _makeRequest), getStats,
\* clearCache and shutdown.
PublicOps ==
    { getStatus, getQR, connect, sendText, getContacts,
      Post("archiveChat", "/chats/archive", <<"phone">>),
      Post("createGroup", "/groups/create", <<"name", "participants">>) }
AnyCall == \E op \in PublicOps : Call(op)

\* getStats(): reads the counters and the connection state, writes nothing.
GetStats ==
    /\ Constructed
    /\ last' = Quiet("getStats")
    /\ burst' = Broken
    /\ UNCHANGED <<options, peers, emitter, cache, requestCount, requestTimestamps, connection,
                   timer, now, inflight, vendorConnected, prevReported, admitLog>>

NextConnection ==
    \/ AnyCall
    \/ GetStats
    \/ HealthTick
    \/ RequestSucceeds
    \/ RequestFails
    \/ ClearCache
    \/ Shutdown
    \/ AdvanceClock
    \/ VendorChange

\* The service constructed with {rateLimit: 1}: one request a minute, the
\* poller's included.
InitConnection == Init /\ rateLimit = 1

SpecConnection == InitConnection /\ [][NextConnection]_vars

\* ------------------------------------------------------ local proxy server
\* The server as start({instanceId, apiToken}) leaves it: the vendor host it
\* defaults to and the instance it was started for.
ServerHost == "api.w-api.app"
ServerInstanceId == "instance"

\* A route of the Express app: its method and path, the vendor endpoint its
\* handler passes to makeApiRequest ("" when it makes no outbound call), the
\* properties of the request body it forwards and the query parameter it
\* appends to the endpoint ("" when none).
Route(method, path, endpoint, fields, query) ==
    [fields |-> fields, endpoint |-> endpoint, method |-> method, path |-> path,
     query |-> query]
GetRoute(path, endpoint, query) == Route("get", path, endpoint, <<>>, query)
PostRoute(path, fields) == Route("post", path, "/v1" \o path, fields, "")

Routes ==
    { GetRoute("/", "", ""),
      GetRoute("/instance/status", "/v1/instance/device", ""),
      GetRoute("/instance/qr-code", "/v1/instance/qr-code", ""),
      PostRoute("/instance/connect", <<>>),
      PostRoute("/instance/disconnect", <<>>),
      PostRoute("/instance/restart", <<>>),
      PostRoute("/instance/logout", <<>>),
      PostRoute("/message/send-text", <<"phone", "message", "options">>),
      PostRoute("/message/send-image", <<"phone", "image", "caption", "options">>),
      PostRoute("/message/send-document",
                <<"phone", "document", "filename", "caption", "options">>),
      PostRoute("/message/send-audio", <<"phone", "audio", "options">>),
      PostRoute("/message/send-video", <<"phone", "video", "caption", "options">>),
      PostRoute("/message/send-location",
                <<"phone", "latitude", "longitude", "name", "address", "options">>),
      PostRoute("/message/send-contact", <<"phone", "contact", "options">>),
      PostRoute("/message/send-button", <<"phone", "message", "buttons", "options">>),
      PostRoute("/message/send-list", <<"phone", "message", "list", "options">>),
      PostRoute("/message/reply", <<"messageId", "message", "options">>),
      GetRoute("/contacts/get", "/v1/contacts/get", "phone"),
      GetRoute("/contacts/get-all", "/v1/contacts/get-all", ""),
      GetRoute("/contacts/check", "/v1/contacts/check", "phone"),
      PostRoute("/contacts/save", <<"phone", "name">>),
      GetRoute("/contacts/get-about", "/v1/contacts/get-about", "phone"),
      GetRoute("/chats/get", "/v1/chats/get", "phone"),
      GetRoute("/chats/get-all", "/v1/chats/get-all", ""),
      PostRoute("/chats/archive", <<"phone">>),
      PostRoute("/chats/unarchive", <<"phone">>),
      PostRoute("/chats/clear", <<"phone">>),
      PostRoute("/chats/delete", <<"phone">>),
      PostRoute("/chats/pin", <<"phone">>),
      PostRoute("/chats/unpin", <<"phone">>),
      PostRoute("/groups/create", <<"name", "participants">>),
      GetRoute("/groups/get", "/v1/groups/get", "groupId"),
      PostRoute("/groups/update-participants", <<"groupId", "participants", "action">>),
      PostRoute("/groups/update-settings", <<"groupId", "settings">>),
      PostRoute("/groups/leave", <<"groupId">>),
      GetRoute("/groups/invite-code", "/v1/groups/invite-code", "groupId") }

\* An HTTP request as the server receives it.
Request(origin, name, method, path, query, body) ==
    [body |-> body, name |-> name, method |-> method, origin |-> origin, path |-> path,
     query |-> query]

\* The value of a property of a parsed query or body; undefined when absent.
ValueOf(pairs, name) ==
    IF \E i \in 1..Len(pairs) : pairs[i][1] = name
    THEN pairs[CHOOSE i \in 1..Len(pairs) : pairs[i][1] = name][2]
    ELSE "undefined"

\* The object a handler builds from the properties it takes from req.body.
Forwarded(body, fields) == [i \in 1..Len(fields) |-> <<fields[i], ValueOf(body, fields[i])>>]

\* A text the server assembles is kept as its pieces, in order, the
\* characters ?, = and & each a piece of their own; Flat is the string.
RECURSIVE Flat(_)
Flat(pieces) == IF pieces = <<>> THEN "" ELSE Head(pieces) \o Flat(Tail(pieces))

\* The URL makeApiRequest builds for an endpoint.
Url(endpoint) ==
    <<"https://", ServerHost>> \o endpoint \o <<"?", "instanceId", "=", ServerInstanceId>>

\* makeApiRequest: the request it hands to axios.
MakeApiRequest(endpoint, method, data) ==
    [method |-> method,
     data   |-> data,
     url    |-> Flat(Url(endpoint))]

\* What makeApiRequest throws for a failed call: the vendor's body, or the
\* message of the error when no response came.
MakeApiError(f) ==
    IF f.response THEN f.body ELSE Json("string", Len(f.message), FALSE, "")

\* The endpoint the handler of route r passes to makeApiRequest for request
\* q: a route that reads a query parameter appends it to the path.
Endpoint(q, r) ==
    IF r.query # ""
    THEN <<r.endpoint, "?", r.query, "=", ValueOf(q.query, r.query)>>
    ELSE <<r.endpoint>>

\* A handler of route r awaiting makeApiRequest for request q.
Handler(q, r) ==
    [route |-> r.path,
     call |-> MakeApiRequest(Endpoint(q, r), r.method, Forwarded(q.body, r.fields)),
     request |-> q]

\* A route handler without its try/catch: a failed call sends nothing and
\* the error leaves the handler.
RouteOutcome_noCatch(ok, value) ==
    IF ok THEN [status |-> 200, body |-> Body(FALSE, value), responses |-> 1, thrown |-> FALSE]
    ELSE [status |-> 0, body |-> NoBody, responses |-> 0, thrown |-> TRUE]

\* A route handler after makeApiRequest returned value (ok) or threw value:
\* res.json(response), or res.status(500).json({success: false, error}).
RouteOutcome(ok, value) ==
    IF ok THEN [status |-> 200, body |-> Body(FALSE, value), responses |-> 1, thrown |-> FALSE]
    ELSE [status |-> 500, body |-> Body(TRUE, value), responses |-> 1, thrown |-> FALSE]

\* ---------------------------------------------------- WapiClient, local mode
\* A method of WapiClient: the endpoint, method and data properties it passes
\* to _makeRequest.
ClientOp(name, endpoint, method, fields) ==
    [fields |-> fields, name |-> name, endpoint |-> endpoint, method |-> method]

ClientOps ==
    { ClientOp("status", "/instance/device", "get", <<>>),
      ClientOp("qr", "/instance/qr-code", "get", <<>>),
      ClientOp("connect", "/instance/connect", "post", <<>>),
      ClientOp("disconnect", "/instance/disconnect", "post", <<>>),
      ClientOp("restart", "/instance/restart", "post", <<>>),
      ClientOp("logout", "/instance/logout", "post", <<>>),
      ClientOp("sendText", "/message/send-text", "post", <<"phone", "message", "options">>),
      ClientOp("sendImage", "/message/send-image", "post",
               <<"phone", "image", "caption", "options">>),
      ClientOp("sendDoc", "/message/send-document", "post",
               <<"phone", "document", "filename", "caption", "options">>),
      ClientOp("sendAudio", "/message/send-audio", "post", <<"phone", "audio", "options">>),
      ClientOp("sendVideo", "/message/send-video", "post",
               <<"phone", "video", "caption", "options">>),
      ClientOp("sendLocation", "/message/send-location", "post",
               <<"phone", "latitude", "longitude", "name", "address", "options">>),
      ClientOp("sendContact", "/message/send-contact", "post",
               <<"phone", "contact", "options">>),
      ClientOp("sendButtons", "/message/send-button", "post",
               <<"phone", "message", "buttons", "options">>),
      ClientOp("sendList", "/message/send-list", "post",
               <<"phone", "message", "list", "options">>),
      ClientOp("reply", "/message/reply", "post", <<"messageId", "message", "options">>),
      ClientOp("getContact", "/contacts/get", "get", <<"phone">>),
      ClientOp("getContacts", "/contacts/get-all", "get", <<>>),
      ClientOp("checkContact", "/contacts/check", "get", <<"phone">>),
      ClientOp("saveContact", "/contacts/save", "post", <<"phone", "name">>),
      ClientOp("getAbout", "/contacts/get-about", "get", <<"phone">>),
      ClientOp("getChat", "/chats/get", "get", <<"phone">>),
      ClientOp("getChats", "/chats/get-all", "get", <<>>),
      ClientOp("archiveChat", "/chats/archive", "post", <<"phone">>),
      ClientOp("unarchiveChat", "/chats/unarchive", "post", <<"phone">>),
      ClientOp("clearChat", "/chats/clear", "post", <<"phone">>),
      ClientOp("deleteChat", "/chats/delete", "post", <<"phone">>),
      ClientOp("pinChat", "/chats/pin", "post", <<"phone">>),
      ClientOp("unpinChat", "/chats/unpin", "post", <<"phone">>),
      ClientOp("createGroup", "/groups/create", "post", <<"name", "participants">>),
      ClientOp("getGroup", "/groups/get", "get", <<"groupId">>),
      ClientOp("updateGroupParticipants", "/groups/update-participants", "post",
               <<"groupId", "participants", "action">>),
      ClientOp("updateGroupSettings", "/groups/update-settings", "post",
               <<"groupId", "settings">>),
      ClientOp("leaveGroup", "/groups/leave", "post", <<"groupId">>),
      ClientOp("getGroupInviteCode", "/groups/invite-code", "get", <<"groupId">>) }

\* WapiClient._makeRequest with directMode false: the request sent to
\* baseUrl, the data as query parameters for a get and as body otherwise.
LocalRequest(op) ==
    Request("client", op.name, op.method, "/v1" \o op.endpoint,
            IF op.method = "get" THEN Args(op.fields) ELSE <<>>,
            IF op.method = "get" THEN <<>> ELSE Args(op.fields))

\* A request that any HTTP client addresses to route r, with the query
\* parameter and the body properties the route reads.
RouteRequest(r) ==
    Request("http", r.path, r.method, r.path,
            IF r.query # "" THEN Args(<<r.query>>) ELSE <<>>, Args(r.fields))

\* ------------------------------------------------------------ proxy actions
service == <<options, emitter, cache, requestCount, requestTimestamps, connection, timer,
             now, inflight, vendorConnected, last, burst, prevReported, admitLog>>

\* The routes Express matches a request to.
Serving(q) == {r \in Routes : r.method = q.method /\ r.path = q.path}

\* The server receives request q: Express answers 404 when no route matches
\* it, the documentation route answers at once, any other handler calls
\* makeApiRequest and awaits it.
Receive(q) ==
    /\ IF Serving(q) = {}
       THEN /\ handlers' = handlers
            /\ reply' = Reply(q.origin, q.name, q.method, q.path, "", "", 404,
                              Body(FALSE, Json("string", 1, FALSE, "")), 1, FALSE)
       ELSE LET r == CHOOSE r \in Serving(q) : TRUE
                h == Handler(q, r)
            IN  IF r.endpoint = ""
                THEN /\ handlers' = handlers
                     /\ reply' = Reply(q.origin, q.name, q.method, q.path, r.path, "", 200,
                                       Body(FALSE, Json("object", 1, FALSE, "")), 1, FALSE)
                ELSE /\ BagCardinality(handlers) < MaxHandlers
                     /\ handlers' = handlers (+) SetToBag({h})
                     /\ reply' = Reply(q.origin, q.name, q.method, q.path, r.path,
                                       h.call.url, 0, NoBody, 0, FALSE)
    /\ UNCHANGED <<service, transmitted, proxy>>

\* A WapiClient in local mode calls one of its methods.
ClientCall == \E op \in ClientOps : Receive(LocalRequest(op))

\* An HTTP client requests one of the routes.
HttpRequest == \E r \in Routes : Receive(RouteRequest(r))

\* The handler h ends: its outbound call returned or threw value.
Settle(h, ok, value) ==
    LET o == RouteOutcome(ok, value)
    IN  /\ handlers' = handlers (-) SetToBag({h})
        /\ reply' = Reply(h.request.origin, h.request.name, h.request.method,
                          h.request.path, h.route, h.call.url, o.status, o.body,
                          o.responses, o.thrown)
        /\ UNCHANGED <<service, transmitted, proxy>>

\* The vendor answers the outbound call of a handler with a 2xx response.
VendorAnswers ==
    \E h \in BagToSet(handlers) : \E data \in GenericPayloads : Settle(h, TRUE, data)

\* The outbound call of a handler fails.
VendorFails ==
    \E h \in BagToSet(handlers) : \E f \in TransportFailures :
        Settle(h, FALSE, MakeApiError(f))

InitProxy == Unset("", "", Quiet("none")) /\ PeersIdle

NextProxy ==
    \/ ClientCall
    \/ HttpRequest
    \/ VendorAnswers
    \/ VendorFails

SpecProxy == InitProxy /\ [][NextProxy]_vars

\* ------------------------------------------------ proxy start() and stop()
\* The ports a caller asks for; with no port in the options start() takes
\* DefaultPort.
DefaultPort == 3000
Ports == {DefaultPort, 3001}

\* Some server created through the module listens on port.
Listens(port) == \E s \in proxy.listening : s[2] = port

\* start(options): rejects when a credential is missing.  Otherwise
\* app.listen() creates a server and the module variable takes it, whatever
\* it held.  The server listens when the port is free and the promise
\* resolves.  When the port is taken the server does not listen: Express 5
\* hands the error to the callback, which resolves all the same, and
\* Express 4 leaves the 'error' event of the server without a listener,
\* which ends the process.
StartServer ==
    /\ proxy.started # "crashed"
    /\ \E port \in Ports \cup {0}, id \in {"", ServerInstanceId}, token \in {"", "token"} :
        LET p == IF port = 0 THEN DefaultPort ELSE port
            n == proxy.created + 1
        IN  IF id = "" \/ token = ""
            THEN proxy' = [proxy EXCEPT !.started = "rejected", !.stopped = ""]
            ELSE /\ proxy.created < MaxServers
                 /\ IF ~Listens(p)
                    THEN proxy' = Proxy(n, proxy.listening \cup {<<n, p>>}, proxy.closing,
                                        n, "resolved", "")
                    ELSE \/ proxy' = Proxy(n, proxy.listening, proxy.closing, n,
                                           "resolved", "")
                         \/ proxy' = Proxy(n, {}, {}, n, "crashed", "")
    /\ UNCHANGED <<service, handlers, reply, transmitted>>

\* stop(): resolves at once when the module variable is null.  Otherwise it
\* closes the server the variable holds: a listening server stops listening
\* and calls back once its connections have ended; a server that is not
\* listening calls back with ERR_SERVER_NOT_RUNNING and the promise rejects.
StopServer ==
    /\ proxy.started # "crashed"
    /\ IF proxy.server = 0
       THEN proxy' = [proxy EXCEPT !.started = "", !.stopped = "resolved"]
       ELSE IF \E s \in proxy.listening : s[1] = proxy.server
       THEN proxy' = [proxy EXCEPT
                        !.listening = {s \in proxy.listening : s[1] # proxy.server},
                        !.closing = proxy.closing \cup {proxy.server},
                        !.started = "", !.stopped = "pending"]
       ELSE proxy' = [proxy EXCEPT !.started = "", !.stopped = "rejected"]
    /\ UNCHANGED <<service, handlers, reply, transmitted>>

\* The callback of close() for a server that was listening: it sets the
\* module variable to null, whatever it holds by now, and resolves.
CloseCallback ==
    /\ proxy.started # "crashed"
    /\ \E n \in proxy.closing :
        proxy' = [proxy EXCEPT !.server = 0, !.closing = proxy.closing \ {n},
                               !.started = "", !.stopped = "resolved"]
    /\ UNCHANGED <<service, handlers, reply, transmitted>>

NextServer ==
    \/ StartServer
    \/ StopServer
    \/ CloseCallback

SpecServer == InitProxy /\ [][NextServer]_vars

\* ------------------------------------------------- W-API client (WApiClient)
\* A value passed where a phone number is expected: a string, given by its
\* characters, a number, given by its decimal digits, or undefined.
Phone(type, chars) == [type |-> type, chars |-> chars]
Str(chars) == Phone("string", chars)
Undefined == Phone("undefined", <<>>)

Suffix == <<"@", "c", ".", "u", "s">>
Digits == {"0", "1", "2", "3", "4", "5", "6", "7", "8", "9"}
Chars == {"5", "1", "+", "@"}

RECURSIVE SeqsUpTo(_, _)
SeqsUpTo(S, n) ==
    IF n = 0 THEN {<<>>}
    ELSE LET shorter == SeqsUpTo(S, n - 1)
         IN  shorter \cup {Append(s, c) : s \in shorter, c \in S}

\* The phone values drawn: every short string, strings that hold the suffix
\* somewhere, strings that hold all but a part of it, numbers and undefined.
Phones ==
    {Str(s) : s \in SeqsUpTo(Chars, MaxPhoneLen)}
    \cup {Str(a \o Suffix \o b) : a, b \in SeqsUpTo({"5", "+"}, 1)}
    \cup {Str(a \o s) : a \in SeqsUpTo({"5"}, 1),
                        s \in {<<"@", "c", ".", "u">>, <<"@", "c", "u", "s">>,
                               <<"@", "C", ".", "U", "S">>, <<"@", "g", ".", "u", "s">>}}
    \cup {Phone("number", <<"5">>), Phone("number", <<"5", "1">>), Undefined}

\* The phone values drawn for the participants of a group.
GroupPhones ==
    {Str(<<"5", "1">>), Str(<<"+", "5">>), Str(<<"5">> \o Suffix), Str(<<>>),
     Phone("number", <<"5">>)}

ParticipantLists == SeqsUpTo(GroupPhones, MaxParticipants)

\* !phone
Falsy(phone) ==
    \/ phone.type = "undefined"
    \/ phone.type = "string" /\ phone.chars = <<>>
    \/ phone.type = "number" /\ phone.chars = <<"0">>

\* String.prototype.includes
Includes(s, part) ==
    \E i \in 0..(Len(s) - Len(part)) : SubSeq(s, i + 1, i + Len(part)) = part

IsDigit(c) == c \in Digits

Returned(value) == [value |-> value, thrown |-> FALSE]
Threw == [value |-> Undefined, thrown |-> TRUE]

\* _formatPhoneNumber: a falsy value or a string holding '@c.us' is returned
\* as it is; otherwise the non-digits are removed and '@c.us' is appended. A
\* truthy value that is no string has no includes method: the call throws.
FormatPhoneNumber(phone) ==
    IF Falsy(phone) THEN Returned(phone)
    ELSE IF phone.type # "string" THEN Threw
    ELSE IF Includes(phone.chars, Suffix) THEN Returned(phone)
    ELSE Returned(Str(SelectSeq(phone.chars, IsDigit) \o Suffix))

ClientInstanceId == "instance"
GroupId == "group"

\* A method of the client maps the phone values it was given through
\* _formatPhoneNumber and passes the result to _request as a post to
\* endpoint; nothing is requested when the mapping throws.
Transmit(op, given, endpoint) ==
    LET results == [i \in 1..Len(given) |-> FormatPhoneNumber(given[i])]
        thrown  == \E i \in 1..Len(given) : results[i].thrown
    IN  /\ transmitted' =
               [endpoint |-> IF thrown THEN "" ELSE endpoint,
                method   |-> IF thrown THEN "" ELSE "post",
                op       |-> op,
                thrown   |-> thrown,
                given    |-> given,
                phones   |-> IF thrown THEN <<>>
                             ELSE [i \in 1..Len(given) |-> results[i].value]]
        /\ UNCHANGED <<service, handlers, reply, proxy>>

Instance(path) == "/instances/" \o ClientInstanceId \o path

SendTextMessage ==
    \E to \in Phones : Transmit("sendTextMessage", <<to>>, Instance("/message/text"))
SendImageMessage ==
    \E to \in Phones : Transmit("sendImageMessage", <<to>>, Instance("/message/image"))
SendFileMessage ==
    \E to \in Phones : Transmit("sendFileMessage", <<to>>, Instance("/message/file"))
SendButtonMessage ==
    \E to \in Phones : Transmit("sendButtonMessage", <<to>>, Instance("/message/button"))
CreateGroup ==
    \E participants \in ParticipantLists :
        Transmit("createGroup", participants, Instance("/groups/create"))
AddGroupParticipants ==
    \E participants \in ParticipantLists :
        Transmit("addGroupParticipants", participants,
                 Instance("/groups/" \o GroupId \o "/participants/add"))
RemoveGroupParticipants ==
    \E participants \in ParticipantLists :
        Transmit("removeGroupParticipants", participants,
                 Instance("/groups/" \o GroupId \o "/participants/remove"))

InitPhone == Unset("", "", Quiet("none")) /\ PeersIdle

NextPhone ==
    \/ SendTextMessage
    \/ SendImageMessage
    \/ SendFileMessage
    \/ SendButtonMessage
    \/ CreateGroup
    \/ AddGroupParticipants
    \/ RemoveGroupParticipants

SpecPhone == InitPhone /\ [][NextPhone]_vars

\* =================================================================== claims
Emitted(e, events) == \E i \in 1..Len(events) : events[i] = e
Count(e, events) == Cardinality({i \in 1..Len(events) : events[i] = e})
IsSuffix(short, long) ==
    /\ Len(short) <= Len(long)
    /\ short = SubSeq(long, Len(long) - Len(short) + 1, Len(long))

\* A run of admit() calls starts at call j when every earlier call has left
\* the window by then.
StartsRun(j) == j = 1 \/ admitLog[j].time - admitLog[j - 1].time >= WINDOW

\* C1: of the admit() calls of a run whose times lie within one window of
\* 60,000 ms, exactly the first rateLimit are allowed and the later ones are
\* rejected; every rejection carries a retry-after value above 0.
C1_WindowCeiling ==
    /\ \A j \in 1..Len(admitLog) : \A i \in j..Len(admitLog) :
          (StartsRun(j) /\ admitLog[i].time - admitLog[j].time < WINDOW)
             => (admitLog[i].allowed <=> (i - j + 1 <= rateLimit))
    /\ \A i \in 1..Len(admitLog) :
          ~admitLog[i].allowed => admitLog[i].resetAfter > 0

\* More calls than the ceiling within one window, the last of them made
\* later than the first and rejected.
C1_Witness ==
    \E j \in 1..Len(admitLog) :
        /\ StartsRun(j)
        /\ Len(admitLog) - j + 1 > rateLimit
        /\ admitLog[Len(admitLog)].time - admitLog[j].time < WINDOW
        /\ admitLog[Len(admitLog)].time > admitLog[j].time
        /\ ~admitLog[Len(admitLog)].allowed

\* C2: of rateLimit + 1 getStatus() calls made in immediate succession after
\* construction with the default cache and a transport that always succeeds,
\* the first rateLimit are not rejected and the last is rejected with code 429.
C2_BurstOfStatusCalls ==
    (cacheEnabled /\ burst # Broken /\ burst >= 1 /\ last.act = "call") =>
        /\ burst <= rateLimit => last.outcome # "rejected"
        /\ burst = rateLimit + 1 =>
              (last.outcome = "rejected" /\ last.error.code = 429)

\* C3: a step in which the rate limiter rejects a call starts no transport
\* call, records no timestamp (the window is only pruned), leaves
\* requestCount and the cache alone without looking the cache up, emits no
\* request_error, and throws code 429 with a resetAfter property, which no
\* transport error has.
C3_RejectionHasNoEffect ==
    [][ last'.outcome = "rejected" =>
          /\ ~last'.transport /\ ~last'.lookedUp /\ ~last'.stored
          /\ inflight' = inflight
          /\ IsSuffix(requestTimestamps', requestTimestamps)
          /\ requestCount' = requestCount
          /\ cache' = cache
          /\ ~Emitted("request_error", last'.events)
          /\ last'.error.code = 429
          /\ "resetAfter" \in last'.error.fields
          /\ \A f \in TransportFailures :
                /\ "resetAfter" \notin ClassifyError(f).fields
                /\ ClassifyError(f) # last'.error
      ]_vars

\* A user's call rejected while the cache holds a response for it.
C3_Witness ==
    /\ last.act = "call"
    /\ last.outcome = "rejected"
    /\ last.key \in DOMAIN cache
    /\ requestCount > 0

\* C4: with the cache enabled, a read that the limiter admits and that does
\* not bypass the cache, made while the cache holds the response an earlier
\* read of the same endpoint and parameters stored less than cacheTTL seconds
\* ago, returns that response and makes no transport call.
C4_RepeatedReadServedFromCache ==
    [][ ( /\ last'.act = "call"
          /\ last'.lookedUp
          /\ last'.key \in DOMAIN cache
          /\ now - cache[last'.key].timestamp < cacheTTL * 1000 )
        => ( /\ last'.outcome = "hit"
             /\ last'.value = cache[last'.key].data
             /\ ~last'.transport )
      ]_vars

\* C5: a lookup of key k made right after a response v was stored under k is
\* a hit that returns v, at _getFromCache and for the caller of _makeRequest,
\* which makes no transport call.
C5_CacheRoundTrip ==
    [][ ( /\ last.act = "response" /\ last.stored
          /\ last'.act = "call" /\ last'.lookedUp
          /\ last'.key = last.key )
        => ( /\ GetFromCache(cache, last.key, now, cacheEnabled).data = last.value
             /\ last'.outcome = "hit"
             /\ last'.value = last.value
             /\ ~last'.transport )
      ]_vars

\* C6 as stated: a lookup made ttl * 1000 ms or more after the entry was
\* stored is a miss and removes the entry; entries leave the map only by such
\* a lookup, clearCache or shutdown.
C6_ExpiryAtTTL ==
    [][ /\ ( /\ last'.lookedUp
             /\ last'.key \in DOMAIN cache
             /\ now - cache[last'.key].timestamp >= cacheTTL * 1000 )
           => (last'.outcome = "sent" /\ last'.key \notin DOMAIN cache')
        /\ \A k \in DOMAIN cache : k \notin DOMAIN cache' =>
              \/ last'.act \in {"clearCache", "shutdown"}
              \/ ( /\ last'.lookedUp /\ last'.key = k
                   /\ now - cache[k].timestamp >= cacheTTL * 1000 )
      ]_vars

\* C6 amended: a lookup made more than ttl * 1000 ms after the entry was
\* stored is a miss and removes the entry (at exactly ttl * 1000 ms the entry
\* is still served); entries leave the map only by such a lookup, clearCache
\* or shutdown.
C6_ExpiryAfterTTL ==
    [][ /\ ( /\ last'.lookedUp
             /\ last'.key \in DOMAIN cache
             /\ now - cache[last'.key].timestamp > cacheTTL * 1000 )
           => ( /\ last'.outcome = "sent" /\ last'.evicted
                /\ last'.key \notin DOMAIN cache' )
        /\ \A k \in DOMAIN cache : k \notin DOMAIN cache' =>
              \/ last'.act \in {"clearCache", "shutdown"}
              \/ ( /\ last'.lookedUp /\ last'.key = k
                   /\ now - cache[k].timestamp > cacheTTL * 1000 )
      ]_vars

\* A lookup has just deleted an expired entry while another entry stays.
C6_Witness ==
    /\ last.act = "call"
    /\ last.evicted
    /\ last.key \notin DOMAIN cache
    /\ cache # EmptyCache

WriteNames == {op.name : op \in WriteOps}

\* C7: a step of a posting method, its call and its settlement alike, leaves
\* the cache map as it was, neither looking it up nor storing into it, and an
\* admitted call starts a transport call.
C7_WritesBypassCache ==
    [][ last'.op \in WriteNames =>
          /\ cache' = cache
          /\ last'.key = NoKey
          /\ ~last'.lookedUp /\ ~last'.stored
          /\ (last'.act = "call" /\ last'.outcome # "rejected")
                => ( /\ last'.outcome = "sent" /\ last'.transport
                     /\ BagCardinality(inflight') = BagCardinality(inflight) + 1 )
      ]_vars

\* A posting method has resolved while the cache holds a response.
C7_Witness ==
    /\ last.op \in WriteNames
    /\ last.act = "response"
    /\ cacheEnabled
    /\ cache # EmptyCache

\* The step was a poll tick that obtained a status, from the cache at once
\* or from the transport.
PollGotStatus(l) ==
    /\ l.origin = "poll"
    /\ (l.act = "tick" /\ l.outcome = "hit") \/ l.act = "response"

\* The step was a poll tick whose getStatus() failed, rejected by the limiter
\* at once or failed by the transport.
PollFailed(l) ==
    /\ l.origin = "poll"
    /\ (l.act = "tick" /\ l.outcome = "rejected") \/ l.act = "failure"

\* C8: a tick that obtains a status emits 'connected' exactly when the vendor
\* reports connected at this tick and did not at the previous one,
\* 'disconnected' exactly when it reports disconnected and reported connected
\* at the previous one, and 'health_check' exactly once.
C8_TransitionEvents ==
    [][ PollGotStatus(last') =>
          /\ Emitted("connected", last'.events) <=> (vendorConnected /\ ~prevReported)
          /\ Emitted("disconnected", last'.events) <=> (~vendorConnected /\ prevReported)
          /\ Count("health_check", last'.events) = 1
      ]_vars

\* C9: a poll tick that the limiter lets through obtains its status by a
\* transport call, never from the cache.
C9_TickFetchesFreshStatus ==
    (last.act = "tick" /\ last.outcome # "rejected") =>
        (last.outcome = "sent" /\ last.transport)

\* C10: a poll tick whose status fetch fails leaves connected and
\* connectionStatus as they were, records the error in connectionError and
\* emits 'error' once and neither 'connected' nor 'disconnected'.
C10_FailedTickKeepsFlag ==
    [][ PollFailed(last') =>
          /\ connected' = connected
          /\ connectionStatus' = connectionStatus
          /\ last'.error # NoError
          /\ connectionError' = last'.error
          /\ Count("error", last'.events) = 1
          /\ ~Emitted("connected", last'.events)
          /\ ~Emitted("disconnected", last'.events)
      ]_vars

\* A status request of the poller has failed while the flag was true.
C10_Witness ==
    /\ PollFailed(last)
    /\ last.act = "failure"
    /\ connected
    /\ connectionStatus = "connected"
    /\ connectionError = last.error

\* Oldest first: no timestamp is later than the one after it.
OldestFirst(ts) == \A i \in 1..Len(ts) - 1 : ts[i] <= ts[i + 1]

\* C18: in every reachable state, whatever the interleaving of user calls and
\* poll ticks, requestTimestamps holds at most rateLimit timestamps; and a
\* user call or tick that arrives when the pruned window holds rateLimit or
\* more timestamps is rejected with code 429 in that same step: no transport
\* call is started and nothing is left pending for it.
C18_RateWindowInvariant ==
    /\ [](Len(requestTimestamps) <= rateLimit)
    /\ [][ ( /\ last'.act \in {"call", "tick"}
             /\ Len(CheckRateLimit(requestTimestamps, now, rateLimit).timestamps) >= rateLimit )
           => ( /\ last'.outcome = "rejected"
                /\ last'.error.code = 429
                /\ ~last'.transport
                /\ inflight' = inflight )
         ]_vars

\* A poll tick rejected on a full window while a user's request is awaiting
\* its response.
C18_Witness ==
    /\ last.act = "tick"
    /\ last.outcome = "rejected"
    /\ Len(requestTimestamps) = rateLimit
    /\ \E r \in BagToSet(inflight) : r.origin = "user"

C20_PruneBoundary ==
    [][ last'.act = "admit" =>
          LET retained == SelectSeq(requestTimestamps, LAMBDA t : now - t <= WINDOW)
          IN  /\ requestTimestamps' \in {retained, Append(retained, now)}
              /\ OldestFirst(requestTimestamps')
      ]_vars

ServiceEvents == {"connected", "disconnected", "health_check", "error", "request_error"}

\* C12: once shutdown() has returned, no poll tick starts and the poller
\* makes the service emit none of 'connected', 'disconnected',
\* 'health_check', 'error' and 'request_error', also when a tick was awaiting
\* its transport response at the time of the shutdown.  This is the part of
\* the claim that concerns the poller; the 'request_error' of a user's own
\* failing request is not counted against it here.
C12_QuietAfterShutdown ==
    [][ ~timerActive =>
          /\ last'.act # "tick"
          /\ last'.origin = "poll" =>
                \A e \in ServiceEvents : ~Emitted(e, last'.events)
      ]_vars

\* C11: whatever listeners the owner has registered, none for 'error'
\* included, a poll tick that fails lets no exception and no rejected promise
\* escape the timer callback, and the timer stays set for the next interval.
C11_PollFailureIsolated ==
    [][ PollFailed(last') =>
          /\ ~unhandled'
          /\ timerActive' = timerActive
          /\ timerActive' => nextTick' > now'
      ]_vars

\* C14: a construction without an instanceId or without an apiToken, through
\* `new` or through start(), ends in the thrown configuration error with no
\* timer started and no transport call made; from then on no tick runs, no
\* request is sent or counted and no event is emitted.
C14_FailedConstruction ==
    ~Constructed =>
        /\ ~timerActive
        /\ inflight = EmptyBag
        /\ requestCount = 0
        /\ requestTimestamps = <<>>
        /\ last.events = <<>>
        /\ ~last.transport
        /\ last.act \in {"new", "start", "clock"}
        /\ last.act \in {"new", "start"} =>
              (last.outcome = "threw" /\ last.error = ConfigError)

\* A construction was given an instanceId by the environment and no apiToken,
\* and a health-check interval has passed since.
C14_Witness ==
    /\ instanceId = "from-env"
    /\ apiToken = ""
    /\ now >= TimeStep
    /\ last.act = "clock"

\* C15: every route handler of the proxy server ends with exactly one
\* response and no error leaving it. When its outbound call returned, the
\* response is HTTP 200 with the returned body as it is; when the call threw,
\* the response is HTTP 500 with {success: false, error}, error being the
\* thrown value. A handler that still awaits its call has sent nothing.
C15_RouteAnswers ==
    /\ [](reply.responses <= 1 /\ ~reply.thrown)
    /\ [][\A h \in BagToSet(handlers) :
            /\ \A data \in GenericPayloads :
                 Settle(h, TRUE, data) =>
                     /\ reply'.status = 200
                     /\ reply'.body = [value |-> data, wrapped |-> FALSE]
                     /\ reply'.responses = 1
                     /\ reply'.route = h.route
                     /\ CopiesIn(h, handlers') = CopiesIn(h, handlers) - 1
            /\ \A f \in TransportFailures :
                 Settle(h, FALSE, MakeApiError(f)) =>
                     /\ reply'.status = 500
                     /\ reply'.body.wrapped
                     /\ reply'.body.value =
                            IF f.response THEN f.body
                            ELSE Json("string", Len(f.message), FALSE, "")
                     /\ reply'.responses = 1
                     /\ reply'.route = h.route
                     /\ CopiesIn(h, handlers') = CopiesIn(h, handlers) - 1]_vars
    /\ [][BagCardinality(handlers') > BagCardinality(handlers) =>
            reply'.responses = 0 /\ reply'.status = 0]_vars

\* The outbound call of GET /contacts/get failed without a response and the
\* route answered 500 with the message of the error.
C15_Witness ==
    /\ reply.route = "/contacts/get"
    /\ reply.status = 500
    /\ reply.body = Body(TRUE, Json("string", Len("Network Error"), FALSE, ""))
    /\ reply.responses = 1
    /\ handlers = EmptyBag

\* C16: every request of a WapiClient in local mode reaches a route that the
\* proxy server serves (it is never answered by Express's 404), and the
\* route forwards to the vendor endpoint of the client's operation.
C16_ClientUsesServedRoutes ==
    \A op \in ClientOps :
        reply.origin = "client" /\ reply.name = op.name =>
            /\ reply.status # 404
            /\ \E r \in Routes :
                 /\ r.path = reply.route
                 /\ r.method = op.method
                 /\ r.endpoint = "/v1" \o op.endpoint

\* C17: whatever phone values a send or group operation of the W-API client
\* is given, normalizing them raises no error and the operation transmits,
\* for each of them in turn, the normalized value: the value itself when it
\* is empty or holds '@c.us', and otherwise its digit characters in their
\* order followed by '@c.us'.
C17_PhoneNormalized ==
    transmitted.op # "none" =>
        /\ ~transmitted.thrown
        /\ transmitted.method = "post"
        /\ Len(transmitted.phones) = Len(transmitted.given)
        /\ \A i \in 1..Len(transmitted.given) :
             LET phone == transmitted.given[i]
                 empty == phone = Undefined \/ phone.chars = <<>>
                 hasSuffix == \E a, b \in SeqsUpTo(Chars \cup {"5", "+"}, MaxPhoneLen) :
                                  phone.chars = a \o <<"@", "c", ".", "u", "s">> \o b
                 digits == SelectSeq(phone.chars, LAMBDA c : c \in Digits)
             IN  transmitted.phones[i] =
                     IF empty \/ hasSuffix THEN phone
                     ELSE [type |-> "string", chars |-> digits \o <<"@", "c", ".", "u", "s">>]

\* The timestamps of ts that _checkRateLimit keeps at time t.
InWindow(ts, t) == {i \in 1..Len(ts) : t - ts[i] < WINDOW}

\* The cache holds, at time t, a usable response under key.
Cached(c, key, t) ==
    /\ key \in DOMAIN c
    /\ t <= c[key].expires
    /\ Truthy(c[key].data)

\* C21: the rate limiter is consulted before the cache on every call. A read
\* whose response is in the cache and has not expired is rejected with the
\* rate-limit error, the cache not looked at, when the window is full; and a
\* call is served from the cache only when the limiter allowed it.
C21_LimiterBeforeCache ==
    [][\A op \in CacheOps :
         Call(op) =>
           LET key  == IF cacheEnabled /\ op.method = "get"
                       THEN <<op.endpoint, "-", op.data>> ELSE <<>>
               full == Cardinality(InWindow(requestTimestamps, now)) >= rateLimit
           IN  /\ full /\ key # <<>> /\ ~op.skipCache /\ Cached(cache, key, now) =>
                     /\ last'.outcome = "rejected"
                     /\ last'.error.code = 429
                     /\ "resetAfter" \in last'.error.fields
                     /\ ~last'.lookedUp
                     /\ ~last'.transport
                     /\ cache' = cache
               /\ last'.outcome = "hit" =>
                     /\ ~full
                     /\ Cached(cache, key, now)
                     /\ last'.value = cache[key].data]_vars

\* A getStatus() call was rejected by the limiter while its response was in
\* the cache, unexpired.
C21_Witness ==
    /\ last.act = "call"
    /\ last.op = "getStatus"
    /\ last.outcome = "rejected"
    /\ last.error.code = 429
    /\ Cached(cache, last.key, now)

\* The step was taken by a user-facing operation.
UserStep == AnyCall \/ GetStats \/ ClearCache \/ Shutdown

\* The step ended a poll tick with a status (from the transport or from the
\* cache), or with an error (from the limiter or from the transport).
TickGotStatus == last'.origin = "poll" /\ last'.outcome \in {"resolved", "hit"}
TickFailed == last'.origin = "poll" /\ last'.outcome \in {"rejected", "failed"}

\* C22 as stated: no user-facing operation changes connected,
\* connectionStatus or connectionError, and they keep their initial values
\* (false, 'disconnected', null) until the first successful tick: any
\* change of one of them is made by a tick that got a status.
C22_ConnectionWrittenBySuccessfulTick ==
    /\ connected = FALSE /\ connectionStatus = "disconnected" /\ connectionError = NoError
    /\ [][/\ connection' # connection => ~UserStep
          /\ connection' # connection => TickGotStatus]_vars

\* C22, amended: no user-facing operation changes connected, connectionStatus
\* or connectionError. They start as false, 'disconnected' and null;
\* connected and connectionStatus change only at a tick that got a status,
\* connectionError changes only at a tick that failed, which leaves the
\* other two as they were.
C22_ConnectionWrittenByTicks ==
    /\ connected = FALSE /\ connectionStatus = "disconnected" /\ connectionError = NoError
    /\ [][/\ connection' # connection => ~UserStep
          /\ connected' # connected \/ connectionStatus' # connectionStatus => TickGotStatus
          /\ connectionError' # connectionError =>
                 /\ TickFailed
                 /\ connected' = connected
                 /\ connectionStatus' = connectionStatus]_vars

\* A tick failed before any tick got a status: the flag and the label are
\* the initial ones and connectionError is set.
C22_Witness ==
    /\ last.origin = "poll"
    /\ last.outcome \in {"rejected", "failed"}
    /\ connectionError # NoError
    /\ connected = FALSE
    /\ connectionStatus = "disconnected"

\* shutdown() has been called on the service.
Stopped == Constructed /\ ~timerActive

C24_CacheEmptyAfterShutdown ==
    [][last.act = "shutdown" /\ last'.act = "response" => cache' = EmptyCache]_vars

\* C25: in every execution, overlapping ticks and any order of the responses
\* included, the flag starts false, a step emits 'connected' exactly when it
\* turns the flag from false to true and 'disconnected' exactly when it turns
\* it from true to false, once each.  Hence the two events alternate, the
\* first is 'connected', and the flag is true exactly when the last of them
\* was 'connected'.
C25_TransitionEventsAlternate ==
    /\ connected = FALSE
    /\ [][/\ Emitted("connected", last'.events) <=> (~connected /\ connected')
          /\ Emitted("disconnected", last'.events) <=> (connected /\ ~connected')
          /\ Count("connected", last'.events) <= 1
          /\ Count("disconnected", last'.events) <= 1]_vars

\* A tick turned the flag to false and emitted 'disconnected' while a later
\* tick's status request was still awaiting its response.
C25_Witness ==
    /\ last.act = "response"
    /\ last.origin = "poll"
    /\ Emitted("disconnected", last.events)
    /\ ~connected
    /\ \E r \in BagToSet(inflight) : r.origin = "poll"

\* C26: the poller's ticks share the rate window with the user's calls. A
\* tick that arrives while the window is full starts no transport call and
\* records nothing; it ends as a failed poll: 'error' is emitted with the
\* rate-limit error, which becomes connectionError, no 'health_check' is
\* emitted and the connected flag stays.  A tick that starts a transport call
\* appends one timestamp, the time of the tick, to the pruned window.
C26_TicksShareWindow ==
    [][HealthTick =>
         LET kept == SelectSeq(requestTimestamps, LAMBDA time : now - time < WINDOW)
         IN  /\ Len(kept) >= rateLimit =>
                   /\ last'.outcome = "rejected"
                   /\ ~last'.transport
                   /\ inflight' = inflight
                   /\ requestCount' = requestCount
                   /\ requestTimestamps' = kept
                   /\ last'.error.code = 429
                   /\ last'.error.resetAfter = kept[1] + WINDOW - now
                   /\ connectionError' = last'.error
                   /\ last'.events = <<"error">>
                   /\ connected' = connected
             /\ Len(kept) < rateLimit => last'.outcome \in {"sent", "hit"}
             /\ last'.transport =>
                   /\ requestTimestamps' = Append(kept, now)
                   /\ requestCount' = requestCount + 1
                   /\ BagCardinality(inflight') = BagCardinality(inflight) + 1]_vars

\* The first tick found the window filled by the user's calls and was
\* rejected.
C26_Witness ==
    /\ last.act = "tick"
    /\ last.outcome = "rejected"
    /\ now = healthCheckInterval
    /\ Len(requestTimestamps) = rateLimit
    /\ last.events = <<"error">>

\* C27: a transport call that fails leaves the cache, the window and
\* requestCount as they are: the failed call still counts.  requestCount
\* starts at 0 and grows by one exactly at the steps that start a transport
\* call, so it equals the number of transport calls started.
C27_FailureCountsAndKeepsCache ==
    /\ requestCount = 0
    /\ [][/\ \A r \in BagToSet(inflight) : \A f \in TransportFailures :
               Fail(r, f) =>
                   /\ cache' = cache
                   /\ requestTimestamps' = requestTimestamps
                   /\ requestCount' = requestCount
                   /\ last'.outcome = "failed"
          /\ requestCount' = requestCount + (IF last'.transport THEN 1 ELSE 0)
          /\ last'.transport <=> BagCardinality(inflight') = BagCardinality(inflight) + 1]_vars

\* The second of two transport calls failed while the cache held the
\* response of the first; both are counted.
C27_Witness ==
    /\ last.act = "failure"
    /\ cache # EmptyCache
    /\ requestCount = 2
    /\ Len(requestTimestamps) = 2
    /\ inflight = EmptyBag

\* Two reads are the same read: the same endpoint and the same mapping of
\* parameter names to values.
SameRead(op1, op2) ==
    /\ op1.endpoint = op2.endpoint
    /\ {op1.data[i] : i \in 1..Len(op1.data)} = {op2.data[i] : i \in 1..Len(op2.data)}

C29_StopLeavesNothingListening ==
    /\ [](proxy.stopped = "resolved" => proxy.listening = {})
    /\ [][StopServer /\ proxy.listening = {} /\ proxy.closing = {}
            => proxy'.stopped = "resolved"]_vars

\* The pieces of s cut at every piece d.
RECURSIVE Split(_, _)
Split(s, d) ==
    IF \A i \in 1..Len(s) : s[i] # d
    THEN <<s>>
    ELSE LET i == CHOOSE i \in 1..Len(s) : s[i] = d /\ \A j \in 1..(i - 1) : s[j] # d
         IN  <<SubSeq(s, 1, i - 1)>> \o Split(SubSeq(s, i + 1, Len(s)), d)

\* The parameters of the query string of a URL as a URL parser reads them:
\* the query string is what follows the first ?, its parameters are cut at
\* &, and the name of each ends at its first =.
Parameters(url) ==
    LET cut    == Split(url, "?")
        query  == SubSeq(url, Len(cut[1]) + 2, Len(url))
        params == IF query = <<>> THEN <<>> ELSE Split(query, "&")
    IN  [i \in 1..Len(params) |->
            LET name == Split(params[i], "=")[1]
            IN  <<Flat(name), Flat(SubSeq(params[i], Len(name) + 2, Len(params[i])))>>]

\* The URL of the request that handler h handed to axios.
Outbound(h) ==
    CHOOSE u \in {Url(Endpoint(h.request, r)) : r \in Serving(h.request)} : Flat(u) = h.call.url

\* C30: the query string of the outbound request of every handler has the
\* parameter instanceId with the configured instance id and, when the route
\* reads phone or groupId from the query, that parameter with the value the
\* route received.
C30_OutboundQueryParameters ==
    \A h \in BagToSet(handlers) : \A r \in Serving(h.request) :
        LET sent == Parameters(Outbound(h))
        IN  /\ ValueOf(sent, "instanceId") = ServerInstanceId
            /\ r.query # "" => ValueOf(sent, r.query) = ValueOf(h.request.query, r.query)

====
